---- MODULE Spec2Model ----
(***************************************************************************)
(* Model of listmonk's settings handlers (settings.go):                    *)
(*   handleGetSettings     read the settings blob, scrub secrets, return   *)
(*   handleUpdateSettings  bind, marshal, validate, persist, then either   *)
(*                         flag needsRestart or schedule a deferred SIGHUP *)
(* Requests run concurrently; every access to shared state (the settings   *)
(* row, the campaign manager, the app lock, needsRestart, sigChan) is a    *)
(* step of its own.                                                        *)
(***************************************************************************)
EXTENDS Integers, Sequences, FiniteSets, TLC

\* ------------------------------------------------------------------ bounds
\* number of request slots (each slot serves one HTTP request)
NumReq == 2
\* longest SMTP list among the documents drawn in DocSpec
MaxSMTP == 2

Reqs == 1..NumReq

\* ------------------------------------------------------------ value domains
PwVals   == {"", "pw"}
KeyVals  == {"", "key"}
RootVals == {"", "u"}

\* JSON keys of the settings struct that the model keeps, plus one key that
\* is not in the schema
SchemaKeys == {"app.root_url", "smtp", "upload.s3.aws_secret_access_key"}
UnknownKey == "x.unknown"

RECURSIVE SeqsUpTo(_, _)
SeqsUpTo(S, n) ==
  IF n = 0 THEN {<<>>}
  ELSE LET shorter == SeqsUpTo(S, n - 1)
       IN  shorter \cup {Append(q, x) : q \in {p \in shorter : Len(p) = n - 1}, x \in S}

\* ----------------------------------------------------------- the Go struct
\* type settings struct: AppRootURL stands for the scalar fields that are not
\* secret, SMTP is a slice (nil or not) of blocks, and the S3 secret key.
SMTPBlocks == [Enabled : BOOLEAN, Password : PwVals]

NilSMTP == [isNil |-> TRUE, elems |-> <<>>]

\* var s settings: the zero value
ZeroSettings ==
  [AppRootURL |-> "", SMTP |-> NilSMTP, UploadS3AwsSecretAccessKey |-> ""]

SettingsUpTo(n) ==
  [AppRootURL : RootVals,
   SMTP : {NilSMTP} \cup {[isNil |-> FALSE, elems |-> q] : q \in SeqsUpTo(SMTPBlocks, n)},
   UploadS3AwsSecretAccessKey : KeyVals]

\* ------------------------------------------------------------- JSON texts
\* A JSON text is malformed, or an object: the set of keys it has and the
\* values of the schema keys (the value of the unknown key is of no interest).
\* A key the object lacks has the zero value here, so that equal objects are
\* equal records.
NullArr == [null |-> TRUE, items |-> <<>>]

JBlocks == [enabled : BOOLEAN, password : PwVals]

Malformed ==
  [wellformed |-> FALSE, keys |-> {}, root_url |-> "", smtp |-> NullArr, secret |-> ""]

\* var out types.JSONText / b []byte before assignment
NoBlob == Malformed

JSONObjects(n) ==
  {j \in [wellformed : {TRUE},
          keys : SUBSET (SchemaKeys \cup {UnknownKey}),
          root_url : RootVals,
          smtp : {NullArr} \cup {[null |-> FALSE, items |-> q] : q \in SeqsUpTo(JBlocks, n)},
          secret : KeyVals] :
     /\ "app.root_url" \notin j.keys => j.root_url = ""
     /\ "smtp" \notin j.keys => j.smtp = NullArr
     /\ "upload.s3.aws_secret_access_key" \notin j.keys => j.secret = ""}

\* json.Unmarshal / c.Bind into a settings value: keys the struct does not
\* have are ignored, keys the text does not have leave the zero value, null
\* leaves a nil slice.
Decode(j) ==
  [AppRootURL |-> IF "app.root_url" \in j.keys THEN j.root_url ELSE "",
   SMTP |-> IF "smtp" \in j.keys /\ ~j.smtp.null
            THEN [isNil |-> FALSE,
                  elems |-> [i \in 1..Len(j.smtp.items) |->
                               [Enabled |-> j.smtp.items[i].enabled,
                                Password |-> j.smtp.items[i].password]]]
            ELSE NilSMTP,
   UploadS3AwsSecretAccessKey |->
     IF "upload.s3.aws_secret_access_key" \in j.keys THEN j.secret ELSE ""]

\* variant: the secret key is written under a name Decode does not read
Encode_WrongTag(d) ==
  [wellformed |-> TRUE,
   keys |-> {"app.root_url", "smtp", UnknownKey},
   root_url |-> d.AppRootURL,
   smtp |-> IF d.SMTP.isNil THEN NullArr
            ELSE [null |-> FALSE,
                  items |-> [i \in 1..Len(d.SMTP.elems) |->
                               [enabled |-> d.SMTP.elems[i].Enabled,
                                password |-> d.SMTP.elems[i].Password]]],
   secret |-> d.UploadS3AwsSecretAccessKey]

\* json.Marshal(s): every field of the struct is written (no omitempty), a
\* nil slice is written as null.
Encode(d) ==
  [wellformed |-> TRUE,
   keys |-> SchemaKeys,
   root_url |-> d.AppRootURL,
   smtp |-> IF d.SMTP.isNil THEN NullArr
            ELSE [null |-> FALSE,
                  items |-> [i \in 1..Len(d.SMTP.elems) |->
                               [enabled |-> d.SMTP.elems[i].Enabled,
                                password |-> d.SMTP.elems[i].Password]]],
   secret |-> d.UploadS3AwsSecretAccessKey]

\* variant: any SMTP block counts, enabled or not
HasEnabledSMTP_AnyBlock(d) ==
  Len(d.SMTP.elems) > 0

\* the loop "for _, s := range s.SMTP { if s.Enabled { has = true; break } }"
HasEnabledSMTP(d) ==
  \E i \in 1..Len(d.SMTP.elems) : d.SMTP.elems[i].Enabled

\* variant: the loop stops one block short
Scrub_StopsShort(d) ==
  [d EXCEPT !.SMTP.elems = [i \in 1..Len(d.SMTP.elems) |->
                              IF i < Len(d.SMTP.elems) \/ i = 1
                              THEN [d.SMTP.elems[i] EXCEPT !.Password = ""]
                              ELSE d.SMTP.elems[i]],
            !.UploadS3AwsSecretAccessKey = ""]

\* handleGetSettings: clear every SMTP password and the S3 secret key
Scrub(d) ==
  [d EXCEPT !.SMTP.elems = [i \in 1..Len(d.SMTP.elems) |->
                              [d.SMTP.elems[i] EXCEPT !.Password = ""]],
            !.UploadS3AwsSecretAccessKey = ""]

\* ---------------------------------------------------------------- responses
NoResp == [status |-> 0, kind |-> "none", data |-> ZeroSettings]

Resp(st, k) == [status |-> st, kind |-> k, data |-> ZeroSettings]

DataResp(d) == [status |-> 200, kind |-> "data", data |-> d]

UpdateFailures == {"ParseError", "EncodeError", "ValidationError", "StorageError"}

\* ------------------------------------------------------------------- inputs
\* the settings installed before the first request
InitSettings ==
  [AppRootURL |-> "u",
   SMTP |-> [isNil |-> FALSE, elems |-> <<[Enabled |-> TRUE, Password |-> "pw"]>>],
   UploadS3AwsSecretAccessKey |-> "key"]

\* request bodies of the concurrent specification
BodyDisabled ==
  [wellformed |-> TRUE, keys |-> {"smtp"}, root_url |-> "",
   smtp |-> [null |-> FALSE, items |-> <<[enabled |-> FALSE, password |-> ""]>>],
   secret |-> ""]

BodyEnabled ==
  [wellformed |-> TRUE, keys |-> {"smtp"}, root_url |-> "",
   smtp |-> [null |-> FALSE, items |-> <<[enabled |-> TRUE, password |-> "pw"]>>],
   secret |-> ""]

BodyTwoBlocks ==
  [wellformed |-> TRUE, keys |-> SchemaKeys \cup {UnknownKey}, root_url |-> "u",
   smtp |-> [null |-> FALSE, items |-> <<[enabled |-> FALSE, password |-> "pw"],
                                         [enabled |-> TRUE, password |-> ""]>>],
   secret |-> "key"]

ReqBodies == {Malformed, BodyDisabled, BodyEnabled, BodyTwoBlocks}

\* request bodies of the document specification
DocBodies == {Malformed} \cup JSONObjects(MaxSMTP)

\* -------------------------------------------------------------------- state
VARIABLES
  store,         \* the settings row: the blob the queries read and replace
  needsRestart,  \* app.needsRestart
  lock,          \* holder of the app mutex, 0 when free
  running,       \* whether the campaign manager has running campaigns
  pc,            \* position of each request in its handler
  s,             \* handleUpdateSettings: the bound settings
  b,             \* handleUpdateSettings: the marshalled settings
  probe,         \* what HasRunningCampaigns returned to the request
  resp,          \* the response the request returned
  spawned,       \* goroutines the request launched
  sleeping,      \* reload goroutines waiting on time.After
  sending,       \* reload goroutines blocked on the send to sigChan
  delivered      \* SIGHUPs received from sigChan

vars == <<store, needsRestart, lock, running, pc, s, b, probe, resp, spawned,
          sleeping, sending, delivered>>

shared == <<store, needsRestart, lock, running>>
signals == <<sleeping, sending, delivered>>

\* reload notifications scheduled so far, wherever they are by now
Scheduled == sleeping + sending + delivered

InitRequests ==
  /\ pc = [r \in Reqs |-> "idle"]
  /\ s = [r \in Reqs |-> ZeroSettings]
  /\ b = [r \in Reqs |-> NoBlob]
  /\ probe = [r \in Reqs |-> "none"]
  /\ resp = [r \in Reqs |-> NoResp]
  /\ spawned = [r \in Reqs |-> 0]

InitApp ==
  /\ needsRestart = FALSE
  /\ lock = 0
  /\ running \in BOOLEAN
  /\ sleeping = 0
  /\ sending = 0
  /\ delivered = 0

Init ==
  /\ store = Encode(InitSettings)
  /\ InitApp
  /\ InitRequests

\* a request returns: its locals are gone, the response is out
Return(r, rp) ==
  /\ pc' = [pc EXCEPT ![r] = "done"]
  /\ resp' = [resp EXCEPT ![r] = rp]

\* ---------------------------------------------------------- handleGetSettings
\* variant: a blob that does not decode falls through to the response
ReadResult_FallsThrough(blob, fetchOk) ==
  IF ~fetchOk THEN Resp(500, "FetchError")
  ELSE DataResp(Scrub(Decode(blob)))

\* fetchOk: whether queries.GetSettings.Get succeeds
ReadResult(blob, fetchOk) ==
  IF ~fetchOk THEN Resp(500, "FetchError")
  ELSE IF ~blob.wellformed THEN Resp(500, "DecodeError")
  ELSE DataResp(Scrub(Decode(blob)))

\* variant: the scrubbed settings are saved back
GetSettings_SavesScrubbed(r, fetchOk) ==
  /\ pc[r] = "idle"
  /\ Return(r, ReadResult(store, fetchOk))
  /\ store' = IF fetchOk /\ store.wellformed THEN Encode(Scrub(Decode(store))) ELSE store
  /\ UNCHANGED <<needsRestart, lock, running, signals, s, b, probe, spawned>>

GetSettings(r, fetchOk) ==
  /\ pc[r] = "idle"
  /\ Return(r, ReadResult(store, fetchOk))
  /\ UNCHANGED <<shared, signals, s, b, probe, spawned>>

\* ------------------------------------------------------- handleUpdateSettings
\* c.Bind(&s)
UpdBind(r, body) ==
  /\ pc[r] = "idle"
  /\ IF ~body.wellformed
     THEN /\ Return(r, Resp(400, "ParseError"))
          /\ UNCHANGED s
     ELSE /\ s' = [s EXCEPT ![r] = Decode(body)]
          /\ pc' = [pc EXCEPT ![r] = "marshal"]
          /\ UNCHANGED resp
  /\ UNCHANGED <<shared, signals, b, probe, spawned>>

\* b, err := json.Marshal(s); encOk: whether err is nil
UpdMarshal(r, encOk) ==
  /\ pc[r] = "marshal"
  /\ IF ~encOk
     THEN /\ Return(r, Resp(500, "EncodeError"))
          /\ UNCHANGED b
     ELSE /\ b' = [b EXCEPT ![r] = Encode(s[r])]
          /\ pc' = [pc EXCEPT ![r] = "validate"]
          /\ UNCHANGED resp
  /\ UNCHANGED <<shared, signals, s, probe, spawned>>

\* the check for an enabled SMTP block
UpdValidate(r) ==
  /\ pc[r] = "validate"
  /\ IF ~HasEnabledSMTP(s[r])
     THEN Return(r, Resp(400, "ValidationError"))
     ELSE /\ pc' = [pc EXCEPT ![r] = "exec"]
          /\ UNCHANGED resp
  /\ UNCHANGED <<shared, signals, s, b, probe, spawned>>

\* What the UpdateSettings query does to the row: the query is not part of
\* settings.go; by the store's contract a successful put replaces the stored
\* document with the blob it is given, whole and in one step.
StorePut(row, blob) == blob

\* variant: the error of the query is ignored
UpdExec_IgnoresError(r, execOk) ==
  /\ pc[r] = "exec"
  /\ store' = IF execOk THEN b[r] ELSE store
  /\ pc' = [pc EXCEPT ![r] = "probe"]
  /\ UNCHANGED <<needsRestart, lock, running, signals, s, b, probe, resp, spawned>>

\* variant: a secret the new document leaves empty keeps its stored value
UpdExec_KeepsSecrets(r, execOk) ==
  /\ pc[r] = "exec"
  /\ IF ~execOk
     THEN /\ Return(r, Resp(500, "StorageError"))
          /\ UNCHANGED store
     ELSE /\ store' = [b[r] EXCEPT
                         !.secret = IF @ = "" THEN store.secret ELSE @,
                         !.smtp.items = [i \in 1..Len(b[r].smtp.items) |->
                            IF b[r].smtp.items[i].password = "" /\ i <= Len(store.smtp.items)
                            THEN [b[r].smtp.items[i] EXCEPT !.password = store.smtp.items[i].password]
                            ELSE b[r].smtp.items[i]]]
          /\ pc' = [pc EXCEPT ![r] = "probe"]
          /\ UNCHANGED resp
  /\ UNCHANGED <<needsRestart, lock, running, signals, s, b, probe, spawned>>

\* variant: a field the new document leaves empty keeps its stored value
UpdExec_KeepsRootURL(r, execOk) ==
  /\ pc[r] = "exec"
  /\ IF ~execOk
     THEN /\ Return(r, Resp(500, "StorageError"))
          /\ UNCHANGED store
     ELSE /\ store' = [b[r] EXCEPT !.root_url = IF @ = "" THEN store.root_url ELSE @]
          /\ pc' = [pc EXCEPT ![r] = "probe"]
          /\ UNCHANGED resp
  /\ UNCHANGED <<needsRestart, lock, running, signals, s, b, probe, spawned>>

\* variant: the row is replaced although the query reports an error
UpdExec_WritesOnError(r, execOk) ==
  /\ pc[r] = "exec"
  /\ store' = b[r]
  /\ IF ~execOk
     THEN Return(r, Resp(500, "StorageError"))
     ELSE /\ pc' = [pc EXCEPT ![r] = "probe"]
          /\ UNCHANGED resp
  /\ UNCHANGED <<needsRestart, lock, running, signals, s, b, probe, spawned>>

\* app.queries.UpdateSettings.Exec(b); execOk: whether the query succeeds
UpdExec(r, execOk) ==
  /\ pc[r] = "exec"
  /\ IF ~execOk
     THEN /\ Return(r, Resp(500, "StorageError"))
          /\ UNCHANGED store
     ELSE /\ store' = StorePut(store, b[r])
          /\ pc' = [pc EXCEPT ![r] = "probe"]
          /\ UNCHANGED resp
  /\ UNCHANGED <<needsRestart, lock, running, signals, s, b, probe, spawned>>

\* variant: the branches are swapped
UpdProbe_Swapped(r) ==
  /\ pc[r] = "probe"
  /\ probe' = [probe EXCEPT ![r] = IF running THEN "true" ELSE "false"]
  /\ pc' = [pc EXCEPT ![r] = IF running THEN "spawn" ELSE "lock"]
  /\ UNCHANGED <<shared, signals, s, b, resp, spawned>>

\* if app.manager.HasRunningCampaigns()
UpdProbe(r) ==
  /\ pc[r] = "probe"
  /\ probe' = [probe EXCEPT ![r] = IF running THEN "true" ELSE "false"]
  /\ pc' = [pc EXCEPT ![r] = IF running THEN "lock" ELSE "spawn"]
  /\ UNCHANGED <<shared, signals, s, b, resp, spawned>>

\* variant: the mutex is taken without waiting for its holder
UpdLock_NoWait(r) ==
  /\ pc[r] = "lock"
  /\ lock' = r
  /\ pc' = [pc EXCEPT ![r] = "set"]
  /\ UNCHANGED <<store, needsRestart, running, signals, s, b, probe, resp, spawned>>

\* app.Lock()
UpdLock(r) ==
  /\ pc[r] = "lock"
  /\ lock = 0
  /\ lock' = r
  /\ pc' = [pc EXCEPT ![r] = "set"]
  /\ UNCHANGED <<store, needsRestart, running, signals, s, b, probe, resp, spawned>>

\* app.needsRestart = true
UpdSetFlag(r) ==
  /\ pc[r] = "set"
  /\ needsRestart' = TRUE
  /\ pc' = [pc EXCEPT ![r] = "unlock"]
  /\ UNCHANGED <<store, lock, running, signals, s, b, probe, resp, spawned>>

\* app.Unlock()
UpdUnlock(r) ==
  /\ pc[r] = "unlock"
  /\ lock' = 0
  /\ pc' = [pc EXCEPT ![r] = "respond_restart"]
  /\ UNCHANGED <<store, needsRestart, running, signals, s, b, probe, resp, spawned>>

\* variant: the plain success indicator is returned
UpdRespondRestart_Plain(r) ==
  /\ pc[r] = "respond_restart"
  /\ Return(r, Resp(200, "ok"))
  /\ UNCHANGED <<shared, signals, s, b, probe, spawned>>

\* return c.JSON(http.StatusOK, okResp{struct{NeedsRestart bool}{true}})
UpdRespondRestart(r) ==
  /\ pc[r] = "respond_restart"
  /\ Return(r, Resp(200, "needs_restart"))
  /\ UNCHANGED <<shared, signals, s, b, probe, spawned>>

\* variant: two goroutines are launched
UpdSpawn_Twice(r) ==
  /\ pc[r] = "spawn"
  /\ sleeping' = sleeping + 2
  /\ spawned' = [spawned EXCEPT ![r] = @ + 2]
  /\ pc' = [pc EXCEPT ![r] = "respond_ok"]
  /\ UNCHANGED <<shared, sending, delivered, s, b, probe, resp>>

\* variant: scheduling the reload clears the flag
UpdSpawn_ClearsFlag(r) ==
  /\ pc[r] = "spawn"
  /\ sleeping' = sleeping + 1
  /\ spawned' = [spawned EXCEPT ![r] = @ + 1]
  /\ needsRestart' = FALSE
  /\ pc' = [pc EXCEPT ![r] = "respond_ok"]
  /\ UNCHANGED <<store, lock, running, sending, delivered, s, b, probe, resp>>

\* go func() { ... }()
UpdSpawn(r) ==
  /\ pc[r] = "spawn"
  /\ sleeping' = sleeping + 1
  /\ spawned' = [spawned EXCEPT ![r] = @ + 1]
  /\ pc' = [pc EXCEPT ![r] = "respond_ok"]
  /\ UNCHANGED <<shared, sending, delivered, s, b, probe, resp>>

\* variant: the handler joins the goroutine before it returns
UpdRespondOk_Joins(r) ==
  /\ pc[r] = "respond_ok"
  /\ sleeping = 0 /\ sending = 0
  /\ Return(r, Resp(200, "ok"))
  /\ UNCHANGED <<shared, signals, s, b, probe, spawned>>

\* return c.JSON(http.StatusOK, okResp{true})
UpdRespondOk(r) ==
  /\ pc[r] = "respond_ok"
  /\ Return(r, Resp(200, "ok"))
  /\ UNCHANGED <<shared, signals, s, b, probe, spawned>>

\* the steps of an update after the body is bound
UpdStep(r) ==
  \/ \E encOk \in BOOLEAN : UpdMarshal(r, encOk)
  \/ UpdValidate(r)
  \/ \E execOk \in BOOLEAN : UpdExec(r, execOk)
  \/ UpdProbe(r)
  \/ UpdLock(r)
  \/ UpdSetFlag(r)
  \/ UpdUnlock(r)
  \/ UpdRespondRestart(r)
  \/ UpdSpawn(r)
  \/ UpdRespondOk(r)

\* ------------------------------------------------------ the reload goroutine
\* <-time.After(time.Millisecond * 500)
TimerFire ==
  /\ sleeping > 0
  /\ sleeping' = sleeping - 1
  /\ sending' = sending + 1
  /\ UNCHANGED <<shared, delivered, pc, s, b, probe, resp, spawned>>

\* variant: a send that finds another signal waiting is dropped
SendSignal_Coalesced ==
  /\ sending > 0
  /\ sending' = 0
  /\ delivered' = delivered + 1
  /\ UNCHANGED <<shared, sleeping, pc, s, b, probe, resp, spawned>>

\* variant: the signal is held back while campaigns run
SendSignal_WaitsForCampaigns ==
  /\ sending > 0
  /\ ~running
  /\ sending' = sending - 1
  /\ delivered' = delivered + 1
  /\ UNCHANGED <<shared, sleeping, pc, s, b, probe, resp, spawned>>

\* app.sigChan <- syscall.SIGHUP completes: the receiver takes the signal
SendSignal ==
  /\ sending > 0
  /\ sending' = sending - 1
  /\ delivered' = delivered + 1
  /\ UNCHANGED <<shared, sleeping, pc, s, b, probe, resp, spawned>>

\* -------------------------------------------------------- the campaign manager
\* campaigns start and finish on their own; HasRunningCampaigns reads this
CampaignChange ==
  /\ running' = ~running
  /\ UNCHANGED <<store, needsRestart, lock, signals, pc, s, b, probe, resp, spawned>>

\* ------------------------------------------------------------ specifications
Next ==
  \/ \E r \in Reqs, fetchOk \in BOOLEAN : GetSettings(r, fetchOk)
  \/ \E r \in Reqs, body \in ReqBodies : UpdBind(r, body)
  \/ \E r \in Reqs : UpdStep(r)
  \/ TimerFire
  \/ SendSignal
  \/ CampaignChange

Spec == Init /\ [][Next]_vars

\* The document specification: one request, served from any settings row an
\* update can have stored (a canonical document with an enabled SMTP block),
\* with every request body up to MaxSMTP blocks.
StoredBlobs ==
  {Encode(d) : d \in {x \in SettingsUpTo(MaxSMTP) : \E i \in 1..Len(x.SMTP.elems) : x.SMTP.elems[i].Enabled}}

DocInit ==
  /\ store \in StoredBlobs
  /\ InitApp
  /\ InitRequests

DocNext ==
  \/ \E fetchOk \in BOOLEAN : GetSettings(1, fetchOk)
  \/ \E body \in DocBodies : UpdBind(1, body)
  \/ UpdStep(1)
  \/ TimerFire
  \/ SendSignal
  \/ CampaignChange

DocSpec == DocInit /\ [][DocNext]_vars

\* The row specification: the concurrent handlers, started on a settings row
\* that decodes into the struct or on one that does not.
RowInit ==
  /\ store \in {Encode(InitSettings), Malformed}
  /\ InitApp
  /\ InitRequests

RowSpec == RowInit /\ [][Next]_vars

\* The write-back specification: a client reads the settings and submits, as
\* the body of an update, a document that a read returned (or a document of
\* its own carrying secrets).
ReadBodies == {Encode(resp[q].data) : q \in {p \in Reqs : resp[p].kind = "data"}}

WriteBackNext ==
  \/ \E r \in Reqs, fetchOk \in BOOLEAN : GetSettings(r, fetchOk)
  \/ \E r \in Reqs, body \in ReadBodies \cup {BodyTwoBlocks} : UpdBind(r, body)
  \/ \E r \in Reqs : UpdStep(r)
  \/ TimerFire
  \/ SendSignal
  \/ CampaignChange

WriteBackSpec == Init /\ [][WriteBackNext]_vars

\* Fairness.  A request that has started keeps running: the handler's steps
\* are local code, a query and a mutex that every holder releases.
ReqFairness == \A r \in Reqs : WF_vars(UpdStep(r))

\* The goroutine's timer fires, and the receiver of sigChan keeps receiving
\* (the process does not exit first).
SignalFairness == WF_vars(TimerFire) /\ WF_vars(SendSignal)

\* requests progress; nothing is assumed about the reload goroutines
LiveSpec == Spec /\ ReqFairness

\* requests progress and scheduled reloads are delivered
FairSpec == Spec /\ ReqFairness /\ SignalFairness

\* =================================================================== claims
UpdateDone(r) == pc[r] = "done" /\ resp[r].kind \notin {"data", "FetchError", "DecodeError"}

\* the request r takes a step
Steps(r) == pc'[r] # pc[r]

\* C1: an update that persisted and whose probe answered true has set
\* needsRestart, has launched no reload goroutine and answers needs_restart;
\* none of its steps after the probe adds a reload notification.
C1_ProbeTrueFlagsNoReload ==
  [][\A r \in Reqs :
       /\ (Steps(r) /\ probe'[r] = "true") => Scheduled' = Scheduled
       /\ (pc'[r] = "done" /\ probe'[r] = "true") =>
            /\ needsRestart'
            /\ spawned'[r] = 0
            /\ resp'[r] = Resp(200, "needs_restart")]_vars

C1_Witness ==
  \E r \in Reqs : pc[r] = "done" /\ probe[r] = "true" /\ needsRestart /\ Scheduled = 0

\* C2: no step of an update whose probe answered false changes needsRestart;
\* the update adds exactly one reload notification, when it launches the
\* goroutine, and returns with exactly one launched.
C2_ProbeFalseReloadsOnce ==
  [][\A r \in Reqs :
       (Steps(r) /\ probe'[r] = "false") =>
         /\ needsRestart' = needsRestart
         /\ Scheduled' = Scheduled + (IF pc[r] = "spawn" THEN 1 ELSE 0)
         /\ pc'[r] = "done" => spawned'[r] = 1 /\ resp'[r] = Resp(200, "ok")]_vars

C2_Witness ==
  \E r \in Reqs : pc[r] = "done" /\ probe[r] = "false" /\ needsRestart /\ Scheduled = 1

\* C3: a step of an update that has not persisted (binding, marshalling,
\* validating, a failed Exec) leaves the settings row, needsRestart and the
\* reload notifications alone, so a read returns what it returned before; a
\* failed update never probed and launched nothing; needsRestart and the
\* notifications change only in a step of an update that has persisted.
C3_FailureHasNoEffect ==
  [][/\ \A r \in Reqs :
          (Steps(r) /\ pc[r] \in {"idle", "marshal", "validate", "exec"} /\ pc'[r] # "probe")
            => /\ store' = store
               /\ needsRestart' = needsRestart
               /\ Scheduled' = Scheduled
               /\ ReadResult(store', TRUE) = ReadResult(store, TRUE)
     /\ \A r \in Reqs :
          (pc'[r] = "done" /\ resp'[r].kind \in UpdateFailures)
            => probe'[r] = "none" /\ spawned'[r] = 0
     /\ (needsRestart' # needsRestart \/ Scheduled' # Scheduled)
          => \E r \in Reqs : /\ Steps(r)
                             /\ pc[r] \in {"set", "spawn"}
                             /\ probe[r] # "none"
                             /\ b[r] = Encode(s[r])]_vars

C3_Witness ==
  \E r, q \in Reqs :
    /\ pc[r] = "done" /\ resp[r].kind = "StorageError"
    /\ pc[q] = "done" /\ resp[q] = DataResp(Scrub(InitSettings))
    /\ store = Encode(InitSettings) /\ ~needsRestart /\ Scheduled = 0

\* the SMTP blocks of d that have enabled = true
EnabledBlocks(d) == {i \in 1..Len(d.SMTP.elems) : d.SMTP.elems[i].Enabled}

PastValidation == {"exec", "probe", "lock", "set", "unlock", "respond_restart", "spawn", "respond_ok"}

\* C4: an update that has been decoded ends in ValidationError exactly when
\* its settings have no enabled SMTP block (an update that ended in
\* EncodeError is left out of the equivalence), an update gets to persistence
\* only with an enabled block, and validation is decided before
\* canonicalization: no request holds the canonical encoding while its
\* validation is still to come.  handleUpdateSettings calls json.Marshal
\* before it looks at the SMTP blocks, so the last conjunct fails.
C4_ValidatedBeforeCanonical ==
  \A r \in Reqs :
    /\ (UpdateDone(r) /\ resp[r].kind \notin {"ParseError", "EncodeError"})
         => (resp[r].kind = "ValidationError" <=> EnabledBlocks(s[r]) = {})
    /\ pc[r] \in PastValidation => EnabledBlocks(s[r]) # {}
    /\ b[r] # NoBlob => pc[r] # "validate"

\* C5: the document a successful read returns has every SMTP password and
\* the S3 secret key empty, and agrees with the settings row it read in every
\* other field: the root URL, the number of SMTP blocks (and whether the list
\* is null) and each block's enabled flag.
C5_ReadScrubsSecrets ==
  [][\A r \in Reqs :
       (resp'[r].kind = "data" /\ resp[r].kind # "data") =>
         LET d == resp'[r].data
             n == Len(store.smtp.items)
         IN  /\ resp'[r].status = 200
             /\ store.keys = SchemaKeys
             /\ d.UploadS3AwsSecretAccessKey = ""
             /\ d.AppRootURL = store.root_url
             /\ d.SMTP.isNil = store.smtp.null
             /\ Len(d.SMTP.elems) = n
             /\ \A i \in 1..n : /\ d.SMTP.elems[i].Password = ""
                                /\ d.SMTP.elems[i].Enabled = store.smtp.items[i].enabled]_vars

C5_Witness ==
  \E r \in Reqs :
    /\ resp[r].kind = "data"
    /\ store.secret = "key" /\ Len(store.smtp.items) = 2
    /\ \A i \in 1..2 : store.smtp.items[i].password = "pw"
    /\ \A i \in 1..2 : resp[r].data.SMTP.elems[i].Password = ""
    /\ resp[r].data.AppRootURL = "u"

ReadKinds == {"data", "FetchError", "DecodeError"}

\* C6: a read, whatever its outcome, leaves the settings row (secrets
\* included), needsRestart and the reload notifications as they were.
C6_ReadChangesNothing ==
  [][\A r \in Reqs :
       (resp'[r].kind \in ReadKinds /\ resp[r].kind \notin ReadKinds) =>
         /\ store' = store
         /\ needsRestart' = needsRestart
         /\ <<sleeping', sending', delivered'>> = <<sleeping, sending, delivered>>
         /\ lock' = lock]_vars

C6_Witness ==
  \E r \in Reqs :
    /\ resp[r].kind = "data" /\ resp[r].data.UploadS3AwsSecretAccessKey = ""
    /\ store.secret = "key"
    /\ Len(store.smtp.items) = 1 /\ store.smtp.items[1].password = "pw"

\* C7: needsRestart is false at the start, and once true it is true in every
\* later state.
C7_NeedsRestartSticky ==
  ~needsRestart /\ [][needsRestart => needsRestart']_vars

C7_Witness ==
  /\ needsRestart /\ delivered >= 1
  /\ \E r \in Reqs : pc[r] = "done" /\ probe[r] = "false"

\* C8: a successful update answers needs_restart exactly when its probe
\* answered true; otherwise it answers the plain success indicator and has
\* scheduled a reload.
C8_ResponseTellsProbe ==
  \A r \in Reqs :
    (pc[r] = "done" /\ probe[r] # "none") =>
      /\ resp[r].status = 200
      /\ resp[r].kind = "needs_restart" <=> probe[r] = "true"
      /\ resp[r].kind = "ok" <=> probe[r] = "false"
      /\ resp[r].kind = "ok" => spawned[r] = 1 /\ Scheduled >= 1

C8_Witness ==
  \E r, q \in Reqs :
    /\ pc[r] = "done" /\ resp[r].kind = "needs_restart"
    /\ pc[q] = "done" /\ resp[q].kind = "ok"

\* the updates whose probe answered false and that have launched their goroutine
FalseProbeUpdates ==
  Cardinality({r \in Reqs : probe[r] = "false" /\ pc[r] \in {"respond_ok", "done"}})

\* C9: the reload notifications scheduled are as many as the updates whose
\* probe answered false (none is cancelled, merged or repeated), and, as long
\* as the receiver keeps receiving, every one of them is delivered: once n
\* are scheduled, n are eventually delivered.
C9_EveryReloadDelivered ==
  /\ [](Scheduled = FalseProbeUpdates)
  /\ \A n \in 1..NumReq : (Scheduled >= n) ~> (delivered >= n)

C9_Witness ==
  /\ delivered = 2 /\ sleeping = 0 /\ sending = 0
  /\ \A r \in 1..2 : pc[r] = "done" /\ probe[r] = "false"

\* C10: every update that has started returns a response, whether or not the
\* notification it scheduled is ever received, and a response, once returned,
\* is not changed by what happens to the notification.
C10_UpdateReturnsWithoutWaiting ==
  /\ \A r \in Reqs : (pc[r] \notin {"idle", "done"}) ~> (pc[r] = "done" /\ resp[r].kind # "none")
  /\ [][\A r \in Reqs : resp[r].kind # "none" => resp'[r] = resp[r]]_vars

C10_Witness ==
  \E r \in Reqs :
    /\ pc[r] = "done" /\ resp[r] = Resp(200, "ok")
    /\ delivered = 0 /\ sleeping + sending = 1

\* canonicalize(decode(x))
Canonical(x) == Encode(Decode(x))

\* C11: canonicalization is idempotent and drops the keys the schema does not
\* have.  Before any request is bound, this holds of every body up to MaxSMTP
\* blocks that a request may carry; afterwards the marshalled settings b are
\* a fixed point of decode-encode without an unknown key, and so is the
\* settings row at all times.
C11_CanonicalIdempotent ==
  /\ (\A r \in Reqs : pc[r] = "idle") =>
       \A x \in DocBodies :
         x.wellformed => /\ Canonical(Canonical(x)) = Canonical(x)
                         /\ UnknownKey \notin Canonical(x).keys
  /\ \A r \in Reqs :
       b[r] # NoBlob => /\ Canonical(b[r]) = b[r]
                        /\ UnknownKey \notin b[r].keys
  /\ Canonical(store) = store
  /\ UnknownKey \notin store.keys

C11_Witness ==
  \E r \in Reqs :
    /\ UnknownKey \in BodyTwoBlocks.keys
    /\ s[r] = Decode(BodyTwoBlocks)
    /\ pc[r] = "probe"
    /\ store = Canonical(BodyTwoBlocks) /\ store.keys = SchemaKeys

\* C12: a read that finds a row that does not decode, or whose fetch fails,
\* answers 500 and carries no document; a read returns data only from a row
\* that decodes, and an error response never carries settings.
C12_FailedReadReturnsNoData ==
  [][\A r \in Reqs :
       (resp'[r].kind \in ReadKinds /\ resp[r].kind \notin ReadKinds) =>
         /\ ~store.wellformed => resp'[r].kind \in {"FetchError", "DecodeError"}
         /\ resp'[r].kind = "data" => store.wellformed /\ resp'[r].status = 200
         /\ resp'[r].kind \in {"FetchError", "DecodeError"} =>
              /\ resp'[r].status = 500
              /\ resp'[r].data = ZeroSettings
         /\ pc'[r] = "done"]_vars

C12_Witness ==
  \E r, q \in Reqs :
    /\ ~store.wellformed
    /\ pc[r] = "done" /\ resp[r] = Resp(500, "DecodeError")
    /\ pc[q] = "done" /\ resp[q] = Resp(500, "FetchError")

\* the requests between app.Lock() and app.Unlock()
InFlagSection == {r \in Reqs : pc[r] \in {"set", "unlock"}}

\* C13: a request is between Lock and Unlock exactly when it holds the app
\* lock, so at most one request is there at a time; needsRestart is written
\* only by a step of the holder; a request that responds, or has responded,
\* does not hold the lock.
C13_FlagAccessUnderLock ==
  /\ [](/\ \A r \in Reqs : r \in InFlagSection <=> lock = r
        /\ Cardinality(InFlagSection) <= 1
        /\ lock \in {0} \cup Reqs
        /\ \A r \in Reqs : pc[r] \in {"respond_restart", "done"} => lock # r)
  /\ [][needsRestart' # needsRestart =>
          \E r \in Reqs : Steps(r) /\ pc[r] = "set" /\ lock = r /\ lock' = r]_vars

C13_Witness ==
  \E r, q \in Reqs :
    /\ pc[r] = "set" /\ lock = r
    /\ pc[q] = "lock"

\* C14: nothing ties the scheduled reload to the activity the probe looked at.
\* A campaign can start at any moment, also after a probe answered false, and
\* a notification on its way is never held back by a running campaign: the
\* timer can fire and the signal can be delivered while campaigns run.
C14_ReloadIgnoresActivity ==
  /\ ENABLED CampaignChange
  /\ sleeping > 0 => ENABLED TimerFire
  /\ sending > 0 => ENABLED SendSignal

\* a campaign runs, the only update's probe answered false, and its reload
\* notification is at the send: the next step can deliver it
C14_Witness ==
  \E r \in Reqs :
    /\ probe[r] = "false" /\ spawned[r] = 1
    /\ \A q \in Reqs \ {r} : pc[q] = "idle"
    /\ running
    /\ sending = 1 /\ delivered = 0
    /\ ENABLED SendSignal

\* the canonical encodings of the candidates a request may submit
SubmittedBlobs == {Encode(Decode(x)) : x \in {y \in ReqBodies : y.wellformed}}

\* the updates whose Exec has succeeded
Persisted == {r \in Reqs : pc[r] \in PastValidation \ {"exec"} \/ (pc[r] = "done" /\ probe[r] # "none")}

\* C15: the settings row is at all times the initial document or the
\* canonical encoding of one submitted candidate, whole; it changes only in
\* the Exec of some update, which replaces it by that update's encoding, so
\* after concurrent updates it is the one whose Exec came last.
C15_LastWriterWins ==
  /\ [](store \in {Encode(InitSettings)} \cup SubmittedBlobs)
  /\ [][store' # store =>
          \E r \in Reqs : /\ pc[r] = "exec" /\ pc'[r] = "probe"
                          /\ store' = b[r]
                          /\ b[r] = Encode(s[r])]_vars

C15_Witness ==
  \E r, q \in Reqs :
    /\ r \in Persisted /\ q \in Persisted
    /\ b[r] # b[q]
    /\ store = b[q] /\ store # Encode(InitSettings)

\* C16: the settings row, which starts with an enabled SMTP block, has an
\* enabled SMTP block in every reachable state.
C16_StoredHasEnabledSMTP ==
  /\ store.wellformed
  /\ "smtp" \in store.keys
  /\ ~store.smtp.null
  /\ \E i \in 1..Len(store.smtp.items) : store.smtp.items[i].enabled

C16_Witness ==
  \E r, q \in Reqs :
    /\ pc[r] = "done" /\ resp[r] = Resp(400, "ValidationError")
    /\ q \in Persisted /\ store = b[q] /\ store # Encode(InitSettings)
    /\ ~store.smtp.items[1].enabled

\* C17: an update consults the campaign manager only after its Exec has
\* replaced the row: a request comes to the probe only by the step that
\* stores its document, and probes only from there.  So once any request has
\* probed, needsRestart is set or a reload is scheduled or delivered, the row
\* is no longer the initial one but a submitted document, written by that
\* update's Exec or a later one.
C17_PersistBeforeProbe ==
  /\ []((needsRestart \/ Scheduled > 0 \/ \E r \in Reqs : probe[r] # "none")
          => store # Encode(InitSettings) /\ store \in SubmittedBlobs)
  /\ [][/\ \A r \in Reqs :
             /\ (pc'[r] = "probe" /\ pc[r] # "probe") => (pc[r] = "exec" /\ store' = b[r])
             /\ probe'[r] # probe[r] => (pc[r] = "probe" /\ store \in SubmittedBlobs)
        /\ store' # store => \E r \in Reqs : pc[r] = "exec" /\ store' = b[r]
        /\ delivered' > delivered => store \in SubmittedBlobs]_vars

C17_Witness ==
  /\ needsRestart /\ delivered >= 1
  /\ store \in SubmittedBlobs /\ store # Encode(InitSettings)
  /\ \A r \in Reqs : pc[r] = "done" /\ probe[r] # "none"

\* C18: the Exec of an update leaves in the row exactly the secrets of the
\* submitted settings, block by block, whatever the row held before; when the
\* submitted settings are those a read returned, the stored SMTP passwords
\* and S3 secret key become empty.
C18_SecretsReplacedAsSubmitted ==
  [][\A r \in Reqs :
       (pc[r] = "exec" /\ pc'[r] = "probe") =>
         /\ store'.secret = s[r].UploadS3AwsSecretAccessKey
         /\ Len(store'.smtp.items) = Len(s[r].SMTP.elems)
         /\ \A i \in 1..Len(s[r].SMTP.elems) :
              store'.smtp.items[i].password = s[r].SMTP.elems[i].Password
         /\ (\E q \in Reqs : resp[q] = DataResp(s[r])) =>
              /\ store'.secret = ""
              /\ \A i \in 1..Len(store'.smtp.items) : store'.smtp.items[i].password = ""]_vars

C18_Witness ==
  \E r, q \in Reqs :
    /\ resp[q] = DataResp(Scrub(InitSettings))
    /\ s[r] = resp[q].data /\ pc[r] = "probe"
    /\ InitSettings.UploadS3AwsSecretAccessKey = "key"
    /\ InitSettings.SMTP.elems[1].Password = "pw"
    /\ store.secret = "" /\ store.smtp.items[1].password = ""

====
